---------------------------- MODULE Spec2Model ----------------------------
(***************************************************************************)
(* A model of gapic/configurable_snippetgen/configured_snippet.py: the     *)
(* ConfiguredSnippet aggregate, its naming properties, and the staged      *)
(* construction of the sample function definition by generate().           *)
(*                                                                         *)
(* Python strings are sequences of one-character strings, so that          *)
(* formatting, splitting, case conversion and suffix tests are computed    *)
(* on characters.  Syntax-tree nodes are records tagged with the libcst    *)
(* node type in the field "type".                                          *)
(***************************************************************************)
EXTENDS Naturals, Sequences, FiniteSets

VARIABLES
    api_schema,            \* dataclass field (opaque, never traversed)
    config,                \* dataclass field: the SnippetConfig
    api_version,           \* dataclass field
    is_sync,               \* dataclass field
    _module,               \* self._module
    _sample_function_def,  \* self._sample_function_def
    pc,                    \* position inside generate(), "idle" outside
    last,                  \* the last call made on the instance and its outcome
    result,                \* the value returned by the last property read
    added,                 \* whether _add_sample_function() has ever run
    direct,                \* whether a private method was ever called directly
    nGenerated             \* number of generate() calls that returned normally

vars == <<api_schema, config, api_version, is_sync, _module,
          _sample_function_def, pc, last, result, added, direct, nGenerated>>

(***************************************************************************)
(* Bounds of the model.                                                    *)
(***************************************************************************)
MaxParams == 2   \* longest config.signature.parameters
MaxBody == 2     \* appends are possible while the body is shorter than this

(***************************************************************************)
(* Characters and string helpers.                                          *)
(***************************************************************************)
UpperSeq == <<"A","B","C","D","E","F","G","H","I","J","K","L","M",
              "N","O","P","Q","R","S","T","U","V","W","X","Y","Z">>
LowerSeq == <<"a","b","c","d","e","f","g","h","i","j","k","l","m",
              "n","o","p","q","r","s","t","u","v","w","x","y","z">>
Upper == {UpperSeq[i] : i \in DOMAIN UpperSeq}
Lower == {LowerSeq[i] : i \in DOMAIN LowerSeq}
Digit == {"0","1","2","3","4","5","6","7","8","9"}

\* str.lower() on one character.
LowerChar(c) ==
    IF c \in Upper
    THEN LowerSeq[CHOOSE i \in DOMAIN UpperSeq : UpperSeq[i] = c]
    ELSE c

RECURSIVE Concat(_)
\* "".join(parts)
Concat(parts) ==
    IF parts = <<>> THEN <<>> ELSE Head(parts) \o Concat(Tail(parts))

EndsWith(s, suffix) ==
    /\ Len(suffix) <= Len(s)
    /\ SubSeq(s, Len(s) - Len(suffix) + 1, Len(s)) = suffix

\* s.split(".")[-1]: everything after the last "." (all of s when there is none).
LastSegment(s) ==
    LET dots == {i \in DOMAIN s : s[i] = "."}
        from == IF dots = {} THEN 1
                ELSE (CHOOSE i \in dots : \A j \in dots : j <= i) + 1
    IN SubSeq(s, from, Len(s))

(***************************************************************************)
(* inflection.underscore(word):                                            *)
(*   re.sub(r"([A-Z]+)([A-Z][a-z])", r"\1_\2", word)                       *)
(*   re.sub(r"([a-z\d])([A-Z])", r"\1_\2", word)                           *)
(*   word.replace("-", "_").lower()                                        *)
(* The first substitution puts "_" before the last capital of a run of     *)
(* capitals that a lower-case letter follows; the second between a         *)
(* lower-case letter or digit and a capital.                               *)
(***************************************************************************)
UnderscoreBefore(word, i) ==
    /\ i > 1
    /\ word[i] \in Upper
    /\ \/ /\ word[i-1] \in Upper
          /\ i < Len(word)
          /\ word[i+1] \in Lower
       \/ word[i-1] \in Lower \cup Digit

RECURSIVE UnderscoreFrom(_, _)
UnderscoreFrom(word, i) ==
    IF i > Len(word) THEN <<>>
    ELSE LET c == IF word[i] = "-" THEN "_" ELSE LowerChar(word[i])
         IN (IF UnderscoreBefore(word, i) THEN <<"_", c>> ELSE <<c>>)
                \o UnderscoreFrom(word, i + 1)

underscore(word) == UnderscoreFrom(word, 1)

(***************************************************************************)
(* String literals of the source.                                          *)
(***************************************************************************)
S_us == <<"_">>
S_sync == <<"s","y","n","c">>
S_async == <<"a","s","y","n","c">>
S_sample_ == <<"s","a","m","p","l","e","_">>
S_config_ == <<"_","c","o","n","f","i","g","_">>
S_generated_ == <<"_","g","e","n","e","r","a","t","e","d","_">>
S_py == <<".","p","y">>
S_Client == <<"C","l","i","e","n","t">>
S_AsyncClient == <<"A","s","y","n","c","C","l","i","e","n","t">>
S_client == <<"c","l","i","e","n","t">>
S_client_options == <<"c","l","i","e","n","t","_","o","p","t","i","o","n","s">>
S_api_endpoint == <<"a","p","i","_","e","n","d","p","o","i","n","t">>
S_dash == <<"-">>

S_lp == <<"(">>
S_rp == <<")">>
S_dot == <<".">>
S_eq == <<" ","=", " ">>
S_comma == <<",", " ">>
S_colon == <<":">>
S_colon_sp == <<":", " ">>
S_nl == <<"\n">>
S_quote == <<"\"">>
S_lb == <<"{">>
S_rb == <<"}">>
S_indent == <<" "," "," "," ">>
S_def == <<"d","e","f"," ">>
S_async_sp == <<"a","s","y","n","c"," ">>
S_pass == <<"p","a","s","s">>
S_if == <<"i","f"," ">>

(***************************************************************************)
(* Optional[str]: None, or a string.                                       *)
(***************************************************************************)
None == [isNone |-> TRUE, value |-> <<>>]
Some(s) == [isNone |-> FALSE, value |-> s]

(***************************************************************************)
(* The naming properties, as functions of the dataclass fields.  A config  *)
(* c carries the fields the properties read, and c.missing, the set of     *)
(* sub-messages whose dereference fails.                                   *)
(***************************************************************************)
gapic_module_name(c, version) ==
    LET module_name == LastSegment(c.proto_package)
    IN module_name \o S_us \o version

region_tag(c, version, sync) ==
    LET service_name == c.service_name
        rpc_name == c.rpc_name
        config_id == c.config_id
        sync_or_async == IF sync THEN S_sync ELSE S_async
    IN Concat(<<gapic_module_name(c, version), S_config_, service_name, S_us,
                rpc_name, S_us, config_id, S_us, sync_or_async>>)

sample_function_name(c) ==
    LET snippet_method_name == c.snippet_method_name
        config_id == c.config_id
    IN Concat(<<S_sample_, snippet_method_name, S_us, config_id>>)

client_class_name(c, sync) ==
    IF sync
    THEN c.service_name \o S_Client
    ELSE c.service_name \o S_AsyncClient

\* filename with the two literals the wrong way round.
filename_Swapped(c, version, sync) ==
    LET sync_or_async == IF sync THEN S_async ELSE S_sync
    IN Concat(<<gapic_module_name(c, version), S_generated_, c.service_name,
                S_us, underscore(c.rpc_name), S_us, c.config_id, S_us,
                sync_or_async, S_py>>)

filename(c, version, sync) ==
    LET service_name == c.service_name
        snake_case_rpc_name == underscore(c.rpc_name)
        config_id == c.config_id
        sync_or_async == IF sync THEN S_sync ELSE S_async
    IN Concat(<<gapic_module_name(c, version), S_generated_, service_name,
                S_us, snake_case_rpc_name, S_us, config_id, S_us,
                sync_or_async, S_py>>)

\* api_endpoint that forgets the region.
api_endpoint_IgnoreRegion(c) ==
    IF c.host = <<>> THEN None ELSE Some(c.host)

api_endpoint(c) ==
    LET host == c.host
        region == c.region
    IN IF host = <<>> THEN None
       ELSE IF region = <<>> THEN Some(host)
       ELSE Some(Concat(<<region, S_dash, host>>))

\* The sub-messages of config each property dereferences.
Derefs(prop) ==
    CASE prop = "gapic_module_name" -> {"rpc"}
      [] prop = "region_tag" -> {"rpc", "metadata"}
      [] prop = "sample_function_name" -> {"signature", "metadata"}
      [] prop = "client_class_name" -> {"rpc"}
      [] prop = "filename" -> {"rpc", "metadata"}
      [] prop = "api_endpoint" -> {"snippet"}
      [] OTHER -> {}

\* Whether reading the property fails with the missing-field error.
PropertyRaises(c, prop) == Derefs(prop) \cap c.missing # {}

(***************************************************************************)
(* Syntax-tree nodes built by libcst_utils.                                *)
(***************************************************************************)
empty_module == [type |-> "Module", body |-> <<>>]

base_function_def(function_name, sync) ==
    [type |-> "FunctionDef",
     name |-> function_name,
     asynchronous |-> ~sync,
     params |-> [type |-> "Parameters", params |-> <<>>],
     body |-> [type |-> "IndentedBlock", body |-> <<>>]]

\* A parameter descriptor p has a name and is of a recognized shape or not.
convert_parameter_raises(p) == ~p.recognized

convert_parameter(p) ==
    [type |-> "Param", name |-> p.name, annotation |-> None]

convert_py_dict(pairs) ==
    [type |-> "Dict",
     elements |-> [i \in DOMAIN pairs |->
                      [type |-> "DictElement",
                       key |-> pairs[i][1], value |-> pairs[i][2]]]]

(***************************************************************************)
(* Statements: "client = <module>.<class>(<args>)" as parsed by libcst,    *)
(* and two other statements a caller may append, one of them compound.     *)
(***************************************************************************)
AssignCall(target, module_name, class_name, args) ==
    [type |-> "SimpleStatementLine",
     stmt |-> [type |-> "Assign",
               target |-> target,
               value |-> [type |-> "Call",
                          func |-> [type |-> "Attribute",
                                    value |-> module_name,
                                    attr |-> class_name],
                          args |-> args]]]

PassStatement == [type |-> "SimpleStatementLine", stmt |-> [type |-> "Pass"]]

IfStatement ==
    [type |-> "If",
     test |-> <<"x">>,
     body |-> [type |-> "IndentedBlock", body |-> <<PassStatement>>]]

OtherStatements == {PassStatement, IfStatement}

(***************************************************************************)
(* _AppendToSampleFunctionBody, applied by CSTNode.visit(): a node's       *)
(* children are visited only if visit_<Type> returns true (the default),   *)
(* and leave_<Type> is called on the node either way.                      *)
(***************************************************************************)
\* visit_IndentedBlock that lets the traversal into nested blocks.
visit_IndentedBlock_Descend(node) == TRUE

visit_IndentedBlock(node) == FALSE

leave_IndentedBlock(updated_node, statement) ==
    LET new_body == updated_node.body \o <<statement>>
    IN [updated_node EXCEPT !.body = new_body]

RECURSIVE visit(_, _)
visit(node, statement) ==
    CASE node.type = "IndentedBlock" ->
            LET updated_node ==
                    IF visit_IndentedBlock(node)
                    THEN [node EXCEPT !.body =
                            [i \in DOMAIN node.body |->
                                visit(node.body[i], statement)]]
                    ELSE node
            IN leave_IndentedBlock(updated_node, statement)
      [] node.type \in {"FunctionDef", "If"} ->
            [node EXCEPT !.body = visit(node.body, statement)]
      [] OTHER -> node

(***************************************************************************)
(* The methods of ConfiguredSnippet as functions of the state they read.   *)
(***************************************************************************)
\* _append_to_sample_function_def_body(statement): the new function definition.
append_to_sample_function_def_body(function_def, statement) ==
    visit(function_def, statement)

\* _add_sample_function_parameters(): the error raised, "" for none.
add_sample_function_parameters_raises(c) ==
    IF \E i \in DOMAIN c.parameters : convert_parameter_raises(c.parameters[i])
    THEN "CannotConvertParameter"
    ELSE ""

\* _add_sample_function_parameters() building the list back to front.
add_sample_function_parameters_Reversed(function_def, c) ==
    LET n == Len(c.parameters)
        params == [i \in DOMAIN c.parameters |->
                      convert_parameter(c.parameters[n + 1 - i])]
    IN [function_def EXCEPT
           !.params = [type |-> "Parameters", params |-> params]]

\* _add_sample_function_parameters() extending the list it finds.
add_sample_function_parameters_Accumulate(function_def, c) ==
    LET params == [i \in DOMAIN c.parameters |->
                      convert_parameter(c.parameters[i])]
    IN [function_def EXCEPT
           !.params = [type |-> "Parameters",
                       params |-> function_def.params.params \o params]]

\* _add_sample_function_parameters(): the new function definition.
add_sample_function_parameters(function_def, c) ==
    LET params == [i \in DOMAIN c.parameters |->
                      convert_parameter(c.parameters[i])]
        parameters == [type |-> "Parameters", params |-> params]
    IN [function_def EXCEPT !.params = parameters]

\* The client initialization always built without arguments.
initialization_call_NoArgs(c, version, sync) ==
    AssignCall(S_client, gapic_module_name(c, version),
               client_class_name(c, sync), <<>>)

\* The statement _append_service_client_initialization() builds.
initialization_call(c, version, sync) ==
    IF ~api_endpoint(c).isNone
    THEN LET client_options_arg ==
                [type |-> "Arg",
                 keyword |-> S_client_options,
                 value |-> convert_py_dict(
                     << <<S_api_endpoint, api_endpoint(c).value>> >>)]
         IN AssignCall(S_client, gapic_module_name(c, version),
                       client_class_name(c, sync), <<client_options_arg>>)
    ELSE AssignCall(S_client, gapic_module_name(c, version),
                    client_class_name(c, sync), <<>>)

\* _append_service_client_initialization(): the error raised, "" for none.
append_service_client_initialization_raises(c) ==
    IF \/ PropertyRaises(c, "api_endpoint")
       \/ PropertyRaises(c, "gapic_module_name")
       \/ PropertyRaises(c, "client_class_name")
    THEN "MissingField"
    ELSE ""

\* _append_service_client_initialization() that appends only the first time.
append_service_client_initialization_Once(function_def, c, version, sync) ==
    IF \E i \in DOMAIN function_def.body.body :
          function_def.body.body[i] = initialization_call(c, version, sync)
    THEN function_def
    ELSE append_to_sample_function_def_body(
             function_def, initialization_call(c, version, sync))

\* _append_service_client_initialization(): the new function definition.
append_service_client_initialization(function_def, c, version, sync) ==
    append_to_sample_function_def_body(
        function_def, initialization_call(c, version, sync))

\* _add_sample_function() dropping the result of with_changes().
add_sample_function_Discarded(module, function_def) == module

\* _add_sample_function(): the new module.
add_sample_function(module, function_def) ==
    [module EXCEPT !.body = <<function_def>>]

(***************************************************************************)
(* Module.code: libcst's code generation for the node types above.  An     *)
(* empty indented block is rendered as a single "pass".                    *)
(***************************************************************************)
RECURSIVE Join(_, _)
\* sep.join(parts)
Join(parts, sep) ==
    IF parts = <<>> THEN <<>>
    ELSE IF Len(parts) = 1 THEN Head(parts)
    ELSE Head(parts) \o sep \o Join(Tail(parts), sep)

RenderDict(d) ==
    Concat(<<S_lb,
             Join([i \in DOMAIN d.elements |->
                     Concat(<<S_quote, d.elements[i].key, S_quote, S_colon_sp,
                              S_quote, d.elements[i].value, S_quote>>)],
                  S_comma),
             S_rb>>)

RenderArg(a) == Concat(<<a.keyword, S_eq, RenderDict(a.value)>>)

RenderSmallStatement(st) ==
    IF st.type = "Assign"
    THEN Concat(<<st.target, S_eq, st.value.func.value, S_dot,
                  st.value.func.attr, S_lp,
                  Join([i \in DOMAIN st.value.args |->
                          RenderArg(st.value.args[i])], S_comma),
                  S_rp>>)
    ELSE S_pass

RECURSIVE RenderStatement(_, _)
RECURSIVE RenderBlock(_, _)
RenderStatement(node, indent) ==
    CASE node.type = "SimpleStatementLine" ->
            Concat(<<indent, RenderSmallStatement(node.stmt), S_nl>>)
      [] node.type = "If" ->
            Concat(<<indent, S_if, node.test, S_colon, S_nl,
                     RenderBlock(node.body, indent \o S_indent)>>)
      [] node.type = "FunctionDef" ->
            Concat(<<indent,
                     IF node.asynchronous THEN S_async_sp ELSE <<>>,
                     S_def, node.name, S_lp,
                     Join([i \in DOMAIN node.params.params |->
                             node.params.params[i].name], S_comma),
                     S_rp, S_colon, S_nl,
                     RenderBlock(node.body, indent \o S_indent)>>)

RenderBlock(block, indent) ==
    IF block.body = <<>>
    THEN Concat(<<indent, S_pass, S_nl>>)
    ELSE Concat([i \in DOMAIN block.body |->
                    RenderStatement(block.body[i], indent)])

\* The code property.
code(module) ==
    Concat([i \in DOMAIN module.body |-> RenderStatement(module.body[i], <<>>)])

(***************************************************************************)
(* The inputs: configs, API versions, the sync flag.                       *)
(***************************************************************************)
V_v1 == <<"v","1">>
V_speech == <<"s","p","e","e","c","h">>
V_cloud_speech == <<"c","l","o","u","d",".","s","p","e","e","c","h">>
V_Adaptation == <<"A","d","a","p","t","a","t","i","o","n">>
V_CreateCustomClass ==
    <<"C","r","e","a","t","e","C","u","s","t","o","m","C","l","a","s","s">>
V_GetHTTPResponse ==
    <<"G","e","t","H","T","T","P","R","e","s","p","o","n","s","e">>
V_list_Ops2Go == <<"l","i","s","t","-","O","p","s","2","G","o">>
V_Basic == <<"B","a","s","i","c">>
V_create_custom_class ==
    <<"c","r","e","a","t","e","_","c","u","s","t","o","m","_",
      "c","l","a","s","s">>
V_host == <<"h",".","c","o","m">>
V_eu == <<"e","u">>

BoundedSeq(S, n) == UNION {[1..k -> S] : k \in 0..n}

ParameterDescriptors ==
    {[name |-> <<"a">>, recognized |-> TRUE],
     [name |-> <<"b">>, recognized |-> TRUE],
     [name |-> <<"z">>, recognized |-> FALSE]}

\* The sub-messages an instance's config may lack: the constructor reads
\* config.signature and config.metadata, so those are present.
MissingSets == {{}, {"rpc"}, {"snippet"}}

\* Configs for the construction of the function: every parameter list, every
\* endpoint, every set of missing sub-messages.
Configs ==
    [proto_package : {V_cloud_speech},
     service_name : {V_Adaptation},
     rpc_name : {V_CreateCustomClass},
     config_id : {V_Basic},
     snippet_method_name : {V_create_custom_class},
     parameters : BoundedSeq(ParameterDescriptors, MaxParams),
     host : {<<>>, V_host},
     region : {<<>>, V_eu},
     missing : MissingSets]

\* Configs for the interplay of the methods with the property reads.
FrameConfigs ==
    [proto_package : {V_cloud_speech},
     service_name : {V_Adaptation},
     rpc_name : {V_CreateCustomClass},
     config_id : {V_Basic},
     snippet_method_name : {V_create_custom_class},
     parameters : {<<[name |-> <<"a">>, recognized |-> TRUE],
                     [name |-> <<"b">>, recognized |-> TRUE]>>},
     host : {<<>>, V_host},
     region : {V_eu},
     missing : MissingSets]

NamingConfigs ==
    [proto_package : {V_speech, V_cloud_speech},
     service_name : {V_Adaptation},
     rpc_name : {V_CreateCustomClass, V_GetHTTPResponse, V_list_Ops2Go},
     config_id : {V_Basic},
     snippet_method_name : {V_create_custom_class},
     parameters : {<<>>},
     host : {<<>>, V_host},
     region : {<<>>, V_eu},
     missing : MissingSets]

ApiVersions == {V_v1}

\* A config none of whose fields is missing and whose parameters all convert.
ValidConfig(c) ==
    /\ c.missing = {}
    /\ \A i \in DOMAIN c.parameters : c.parameters[i].recognized

Properties ==
    {"code", "gapic_module_name", "region_tag", "sample_function_name",
     "client_class_name", "filename", "api_endpoint"}

(***************************************************************************)
(* The state after construction (__post_init__).                           *)
(***************************************************************************)
NoArg == [type |-> "NoArg"]

Called(op, step, arg, raised) ==
    [op |-> op, step |-> step, arg |-> arg, raised |-> raised]

InitWith(configs) ==
    /\ api_schema = "api_schema"
    /\ config \in configs
    /\ api_version \in ApiVersions
    /\ is_sync \in BOOLEAN
    /\ _module = empty_module
    /\ _sample_function_def =
           base_function_def(sample_function_name(config), is_sync)
    /\ pc = "idle"
    /\ last = Called("__post_init__", 0, NoArg, "")
    /\ result = None
    /\ added = FALSE
    /\ direct = FALSE
    /\ nGenerated = 0

Init == InitWith(Configs)

Fields == <<api_schema, config, api_version, is_sync>>

Body == _sample_function_def.body.body

(***************************************************************************)
(* Property reads.                                                         *)
(***************************************************************************)
PropertyValue(prop) ==
    CASE prop = "code" -> Some(code(_module))
      [] prop = "gapic_module_name" ->
            Some(gapic_module_name(config, api_version))
      [] prop = "region_tag" -> Some(region_tag(config, api_version, is_sync))
      [] prop = "sample_function_name" -> Some(sample_function_name(config))
      [] prop = "client_class_name" ->
            Some(client_class_name(config, is_sync))
      [] prop = "filename" -> Some(filename(config, api_version, is_sync))
      [] prop = "api_endpoint" -> api_endpoint(config)

ReadProperty ==
    /\ pc = "idle"
    /\ \E prop \in Properties :
          IF PropertyRaises(config, prop)
          THEN /\ last' = Called(prop, 0, NoArg, "MissingField")
               /\ result' = None
          ELSE /\ last' = Called(prop, 0, NoArg, "")
               /\ result' = PropertyValue(prop)
    /\ UNCHANGED <<Fields, _module, _sample_function_def, pc, added, direct,
                   nGenerated>>

(***************************************************************************)
(* The private methods, called directly on an idle instance.  An           *)
(* exception leaves the state as it was when it was raised.                *)
(***************************************************************************)
Call_append_to_sample_function_def_body ==
    /\ pc = "idle"
    /\ Len(Body) < MaxBody
    /\ \E statement \in OtherStatements :
          /\ _sample_function_def' =
                 append_to_sample_function_def_body(
                     _sample_function_def, statement)
          /\ last' = Called("_append_to_sample_function_def_body", 0,
                            statement, "")
    /\ result' = None
    /\ direct' = TRUE
    /\ UNCHANGED <<Fields, _module, pc, added, nGenerated>>

\* _add_sample_function_parameters() that also refreshes the module.
Call_add_sample_function_parameters_Refresh ==
    /\ pc = "idle"
    /\ LET raised == add_sample_function_parameters_raises(config)
           new_def == IF raised = ""
                      THEN add_sample_function_parameters(
                               _sample_function_def, config)
                      ELSE _sample_function_def
       IN /\ last' = Called("_add_sample_function_parameters", 0, NoArg,
                            raised)
          /\ _sample_function_def' = new_def
          /\ _module' = add_sample_function(_module, new_def)
    /\ result' = None
    /\ direct' = TRUE
    /\ UNCHANGED <<Fields, pc, added, nGenerated>>

Call_add_sample_function_parameters ==
    /\ pc = "idle"
    /\ LET raised == add_sample_function_parameters_raises(config)
       IN /\ last' = Called("_add_sample_function_parameters", 0, NoArg,
                            raised)
          /\ _sample_function_def' =
                 IF raised = ""
                 THEN add_sample_function_parameters(
                          _sample_function_def, config)
                 ELSE _sample_function_def
    /\ result' = None
    /\ direct' = TRUE
    /\ UNCHANGED <<Fields, _module, pc, added, nGenerated>>

Call_append_service_client_initialization ==
    /\ pc = "idle"
    /\ Len(Body) < MaxBody
    /\ LET raised == append_service_client_initialization_raises(config)
       IN /\ last' = Called("_append_service_client_initialization", 0,
                            NoArg, raised)
          /\ _sample_function_def' =
                 IF raised = ""
                 THEN append_service_client_initialization(
                          _sample_function_def, config, api_version, is_sync)
                 ELSE _sample_function_def
    /\ result' = None
    /\ direct' = TRUE
    /\ UNCHANGED <<Fields, _module, pc, added, nGenerated>>

Call_build_sample_function ==
    /\ pc = "idle"
    /\ Len(Body) < MaxBody
    /\ LET raised1 == add_sample_function_parameters_raises(config)
           raised2 == append_service_client_initialization_raises(config)
           with_params == add_sample_function_parameters(
                              _sample_function_def, config)
       IN IF raised1 # ""
          THEN /\ last' = Called("_build_sample_function", 0, NoArg, raised1)
               /\ UNCHANGED _sample_function_def
          ELSE IF raised2 # ""
          THEN /\ last' = Called("_build_sample_function", 0, NoArg, raised2)
               /\ _sample_function_def' = with_params
          ELSE /\ last' = Called("_build_sample_function", 0, NoArg, "")
               /\ _sample_function_def' =
                      append_service_client_initialization(
                          with_params, config, api_version, is_sync)
    /\ result' = None
    /\ direct' = TRUE
    /\ UNCHANGED <<Fields, _module, pc, added, nGenerated>>

Call_add_sample_function ==
    /\ pc = "idle"
    /\ _module' = add_sample_function(_module, _sample_function_def)
    /\ last' = Called("_add_sample_function", 0, NoArg, "")
    /\ result' = None
    /\ added' = TRUE
    /\ direct' = TRUE
    /\ UNCHANGED <<Fields, _sample_function_def, pc, nGenerated>>

(***************************************************************************)
(* generate(), one step per method it calls, so that the states between    *)
(* the steps can be observed.  While a call is in progress no other call   *)
(* is made on the instance; an exception ends the call.                    *)
(***************************************************************************)
generate_add_sample_function_parameters ==
    /\ pc = "idle"
    /\ Len(Body) < MaxBody
    /\ LET raised == add_sample_function_parameters_raises(config)
       IN /\ last' = Called("generate", 1, NoArg, raised)
          /\ IF raised = ""
             THEN /\ _sample_function_def' =
                         add_sample_function_parameters(
                             _sample_function_def, config)
                  /\ pc' = "generate_parameters_added"
             ELSE UNCHANGED <<_sample_function_def, pc>>
    /\ result' = None
    /\ UNCHANGED <<Fields, _module, added, direct, nGenerated>>

\* The second step of generate() swallowing the exception and going on.
generate_append_service_client_initialization_Swallow ==
    /\ pc = "generate_parameters_added"
    /\ LET raised == append_service_client_initialization_raises(config)
       IN /\ last' = Called("generate", 2, NoArg, raised)
          /\ _sample_function_def' =
                 IF raised = ""
                 THEN append_service_client_initialization(
                          _sample_function_def, config, api_version, is_sync)
                 ELSE _sample_function_def
          /\ pc' = "generate_function_built"
    /\ UNCHANGED <<Fields, _module, result, added, direct, nGenerated>>

generate_append_service_client_initialization ==
    /\ pc = "generate_parameters_added"
    /\ LET raised == append_service_client_initialization_raises(config)
       IN /\ last' = Called("generate", 2, NoArg, raised)
          /\ IF raised = ""
             THEN /\ _sample_function_def' =
                         append_service_client_initialization(
                             _sample_function_def, config, api_version,
                             is_sync)
                  /\ pc' = "generate_function_built"
             ELSE /\ pc' = "idle"
                  /\ UNCHANGED _sample_function_def
    /\ UNCHANGED <<Fields, _module, result, added, direct, nGenerated>>

generate_add_sample_function ==
    /\ pc = "generate_function_built"
    /\ _module' = add_sample_function(_module, _sample_function_def)
    /\ last' = Called("generate", 3, NoArg, "")
    /\ pc' = "idle"
    /\ added' = TRUE
    /\ nGenerated' = nGenerated + 1
    /\ UNCHANGED <<Fields, _sample_function_def, result, direct>>

Next ==
    \/ Call_append_to_sample_function_def_body
    \/ Call_add_sample_function_parameters
    \/ Call_append_service_client_initialization
    \/ Call_build_sample_function
    \/ Call_add_sample_function
    \/ generate_add_sample_function_parameters
    \/ generate_append_service_client_initialization
    \/ generate_add_sample_function

Spec == Init /\ [][Next]_vars

\* The methods together with the property reads.
InitFrame == InitWith(FrameConfigs)

NextFrame ==
    \/ ReadProperty
    \/ Next

SpecFrame == InitFrame /\ [][NextFrame]_vars

\* The naming properties alone, over a wider set of configs.
InitNaming == InitWith(NamingConfigs)

NextNaming == ReadProperty

SpecNaming == InitNaming /\ [][NextNaming]_vars

(***************************************************************************)
(* Vocabulary of the properties.                                           *)
(***************************************************************************)
\* The parameter list of function_def is config.signature.parameters, name
\* by name, in configuration order.
ParametersMatchConfig(function_def) ==
    /\ Len(function_def.params.params) = Len(config.parameters)
    /\ \A i \in DOMAIN config.parameters :
          /\ function_def.params.params[i].type = "Param"
          /\ function_def.params.params[i].name = config.parameters[i].name

\* statement is "client = <gapic_module_name>.<client_class_name>(...)".
IsClientInitialization(statement) ==
    /\ statement.type = "SimpleStatementLine"
    /\ statement.stmt.type = "Assign"
    /\ statement.stmt.target = S_client
    /\ statement.stmt.value.type = "Call"
    /\ statement.stmt.value.func.value =
           gapic_module_name(config, api_version)
    /\ statement.stmt.value.func.attr = client_class_name(config, is_sync)

ClientInitializationCount(function_def) ==
    Cardinality({i \in DOMAIN function_def.body.body :
                    IsClientInitialization(function_def.body.body[i])})

\* The last call was generate() and it returned normally.
GenerateReturned == last.op = "generate" /\ last.step = 3

\* The last call was generate() and it raised.
GenerateRaised == last.op = "generate" /\ last.raised # ""

(***************************************************************************)
(* C1: after one generate() on a freshly constructed instance with a       *)
(* valid config, the module holds exactly one top-level definition, a      *)
(* function named sample_function_name, whose parameters are the config's  *)
(* parameters in the same number and order, and whose first body           *)
(* statement is the client-initialization assignment.                      *)
(***************************************************************************)
C1_GenerateOnce ==
    (GenerateReturned /\ nGenerated = 1 /\ ~direct) =>
        /\ ValidConfig(config)
        /\ Len(_module.body) = 1
        /\ _module.body[1].type = "FunctionDef"
        /\ _module.body[1].name =
               Concat(<<S_sample_, config.snippet_method_name, S_us,
                        config.config_id>>)
        /\ ParametersMatchConfig(_module.body[1])
        /\ Len(_module.body[1].body.body) >= 1
        /\ IsClientInitialization(_module.body[1].body.body[1])

C1_Witness ==
    /\ GenerateReturned /\ nGenerated = 1 /\ ~direct
    /\ Len(config.parameters) = 2
    /\ config.parameters[1] # config.parameters[2]
    /\ ~api_endpoint(config).isNone

\* The last call appended the client initialization.
ClientInitializationAppended ==
    \/ last.op = "_append_service_client_initialization" /\ last.raised = ""
    \/ last.op = "generate" /\ last.step = 2 /\ last.raised = ""

(***************************************************************************)
(* C2: the statement appended by _append_service_client_initialization()   *)
(* has a client_options keyword argument iff api_endpoint is not None;     *)
(* then it is the only argument and its value is a dictionary with the     *)
(* single key "api_endpoint" mapped to the value of api_endpoint;          *)
(* otherwise the call has no arguments.                                    *)
(***************************************************************************)
C2_ClientOptions ==
    ClientInitializationAppended =>
        LET statement == Body[Len(Body)]
            args == statement.stmt.value.args
        IN /\ IsClientInitialization(statement)
           /\ (\E i \in DOMAIN args : args[i].keyword = S_client_options)
                  <=> ~api_endpoint(config).isNone
           /\ api_endpoint(config).isNone => args = <<>>
           /\ ~api_endpoint(config).isNone =>
                  /\ Len(args) = 1
                  /\ args[1].keyword = S_client_options
                  /\ args[1].value.type = "Dict"
                  /\ Len(args[1].value.elements) = 1
                  /\ args[1].value.elements[1].key = S_api_endpoint
                  /\ args[1].value.elements[1].value =
                         api_endpoint(config).value

C2_Witness ==
    /\ last.op = "_append_service_client_initialization"
    /\ last.raised = ""
    /\ ~api_endpoint(config).isNone
    /\ config.region # <<>>

\* The last call read api_endpoint and returned.
ApiEndpointRead == last.op = "api_endpoint" /\ last.raised = ""

(***************************************************************************)
(* C3: api_endpoint is None when host is empty (whatever the region), the  *)
(* host when host is set and region is empty, and region, "-", host when   *)
(* both are set.                                                           *)
(***************************************************************************)
C3_ApiEndpoint ==
    ApiEndpointRead =>
        /\ config.host = <<>> => result.isNone
        /\ (config.host # <<>> /\ config.region = <<>>) =>
               (~result.isNone /\ result.value = config.host)
        /\ (config.host # <<>> /\ config.region # <<>>) =>
               /\ ~result.isNone
               /\ result.value = config.region \o <<"-">> \o config.host

C3_Witness ==
    /\ ApiEndpointRead
    /\ config.host # <<>>
    /\ config.region # <<>>
    /\ result.value = <<"e","u","-","h",".","c","o","m">>

\* What a step that is a call of _append_to_sample_function_def_body does.
C4_AppendStep ==
    last'.op = "_append_to_sample_function_def_body" =>
        /\ _sample_function_def'.body.body = Body \o <<last'.arg>>
        /\ _sample_function_def'.type = _sample_function_def.type
        /\ _sample_function_def'.body.type = "IndentedBlock"
        /\ _sample_function_def'.name = _sample_function_def.name
        /\ _sample_function_def'.params = _sample_function_def.params
        /\ _sample_function_def'.asynchronous =
               _sample_function_def.asynchronous

(***************************************************************************)
(* C4: a call _append_to_sample_function_def_body(s) leaves the body equal *)
(* to the old body followed by s: one statement more, at the end, every    *)
(* earlier statement (and the blocks nested in it) as it was; the name and *)
(* the parameter list of the function are unchanged.  Over a sequence of   *)
(* calls the body is therefore the old body followed by s1, ..., sn.       *)
(***************************************************************************)
C4_AppendOnly == [][C4_AppendStep]_vars

\* Two statements appended after a compound one, in call order.
C4_Witness ==
    /\ last.op = "_append_to_sample_function_def_body"
    /\ Len(Body) = 2
    /\ Body[1] = IfStatement
    /\ Body[2] = PassStatement
    /\ _sample_function_def.params.params # <<>>

\* code before the module was ever replaced.
C5_EmptyBefore == ~added => code(_module) = <<>>

\* What each step of generate() does to the module.
C5_GenerateStep ==
    /\ (last'.op = "generate" /\ last'.step \in {1, 2}) => _module' = _module
    /\ (last'.op = "generate" /\ last'.step = 3) =>
           /\ Len(_module'.body) = 1
           /\ _module'.body[1] = _sample_function_def
           /\ ParametersMatchConfig(_module'.body[1])
           /\ ClientInitializationCount(_module'.body[1]) >= 1
           /\ code(_module') # <<>>
           /\ code(_module') = RenderStatement(_sample_function_def, <<>>)

(***************************************************************************)
(* C5: as long as _add_sample_function() has not run, in particular in     *)
(* every state of a first generate() before its last step, code is the     *)
(* empty source; the first two steps of generate() leave the module as it  *)
(* is; its last step makes the module the single function definition,      *)
(* which then carries the config's parameters and the client-              *)
(* initialization statement, and code is its text.                         *)
(***************************************************************************)
C5_ModuleLifecycle == []C5_EmptyBefore /\ [][C5_GenerateStep]_vars

\* generate() has appended the client initialization and not yet replaced
\* the module.
C5_Witness ==
    /\ pc = "generate_function_built"
    /\ ~added
    /\ Len(Body) = 1
    /\ config.parameters # <<>>

\* The last call materialized the parameters.
ParametersMaterialized ==
    \/ last.op = "_add_sample_function_parameters" /\ last.raised = ""
    \/ last.op = "generate" /\ ~(last.step = 1 /\ last.raised # "")

\* The parameter list in every state.
C6_ParametersState ==
    /\ \/ _sample_function_def.params.params = <<>>
       \/ ParametersMatchConfig(_sample_function_def)
    /\ ParametersMaterialized => ParametersMatchConfig(_sample_function_def)

\* The body across a call of _add_sample_function_parameters.
C6_ParametersStep ==
    last'.op = "_add_sample_function_parameters" =>
        _sample_function_def'.body = _sample_function_def.body

(***************************************************************************)
(* C6: parameter materialization replaces: the parameter list is empty (as *)
(* constructed) or exactly the config's parameters in configuration order, *)
(* and it is the latter after every successful                             *)
(* _add_sample_function_parameters() or generate(), however many calls     *)
(* came before; _add_sample_function_parameters() leaves the body alone.   *)
(***************************************************************************)
C6_ParametersReplace == []C6_ParametersState /\ [][C6_ParametersStep]_vars

\* A direct call after a completed generate(): the second materialization.
C6_Witness ==
    /\ last.op = "_add_sample_function_parameters"
    /\ last.raised = ""
    /\ nGenerated >= 1
    /\ Len(config.parameters) = 2
    /\ Body # <<>>

\* The last call read the property and returned.
Read(prop) == last.op = prop /\ last.raised = ""

(***************************************************************************)
(* C7: with a config whose fields are present, is_sync selects the same    *)
(* literal in every naming property: filename ends with "_sync.py" when    *)
(* is_sync and with "_async.py" otherwise, region_tag with "_sync" and     *)
(* "_async", client_class_name is service_name + "Client" and              *)
(* service_name + "AsyncClient"; sample_function_name is "sample_",        *)
(* snippet_method_name, "_", config_id, whatever is_sync.                  *)
(***************************************************************************)
C7_SyncSelection ==
    /\ Read("filename") =>
           /\ ~result.isNone
           /\ is_sync => EndsWith(result.value, <<"_","s","y","n","c",".","p","y">>)
           /\ ~is_sync =>
                  EndsWith(result.value, <<"_","a","s","y","n","c",".","p","y">>)
           /\ is_sync <=>
                  EndsWith(result.value, <<"_","s","y","n","c",".","p","y">>)
    /\ Read("region_tag") =>
           /\ is_sync => EndsWith(result.value, <<"_","s","y","n","c">>)
           /\ ~is_sync => EndsWith(result.value, <<"_","a","s","y","n","c">>)
           /\ is_sync <=> EndsWith(result.value, <<"_","s","y","n","c">>)
    /\ Read("client_class_name") =>
           /\ is_sync =>
                  result.value =
                      config.service_name \o <<"C","l","i","e","n","t">>
           /\ ~is_sync =>
                  result.value =
                      config.service_name
                          \o <<"A","s","y","n","c","C","l","i","e","n","t">>
    /\ Read("sample_function_name") =>
           result.value =
               Concat(<<S_sample_, config.snippet_method_name, S_us,
                        config.config_id>>)

C7_Witness ==
    /\ Read("filename")
    /\ ~is_sync
    /\ config.rpc_name = V_GetHTTPResponse
    /\ result.value =
           V_speech \o <<"_","v","1","_","g","e","n","e","r","a","t","e","d","_">>
               \o V_Adaptation
               \o <<"_","g","e","t","_","h","t","t","p","_",
                    "r","e","s","p","o","n","s","e","_">>
               \o V_Basic \o <<"_","a","s","y","n","c",".","p","y">>

\* The state a failed generate() leaves.
C8_FailedState ==
    GenerateRaised =>
        /\ pc = "idle"
        /\ last.raised \in {"CannotConvertParameter", "MissingField"}
        /\ ~added => code(_module) = <<>>

\* The failing step, and the step after a failed generate().
C8_FailingStep ==
    /\ (last'.op = "generate" /\ last'.raised # "") =>
           /\ _module' = _module
           /\ code(_module') = code(_module)
           /\ _sample_function_def' = _sample_function_def
           /\ nGenerated' = nGenerated
           /\ added' = added
    /\ GenerateRaised => ~(last'.op = "generate" /\ last'.step \in {2, 3})

(***************************************************************************)
(* C8: a generate() that raises ends there: the call is over (no later     *)
(* step of it runs), the module is the one before the failing step, so     *)
(* code is the text it was (the empty source when _add_sample_function()   *)
(* never ran), and the call does not count as completed.                   *)
(***************************************************************************)
C8_NoPartialResult == []C8_FailedState /\ [][C8_FailingStep]_vars

\* generate() on a fresh instance failed in its second step, after the
\* parameters were materialized.
C8_Witness ==
    /\ GenerateRaised
    /\ last.step = 2
    /\ last.raised = "MissingField"
    /\ ~direct
    /\ config.parameters # <<>>
    /\ _module = empty_module

(***************************************************************************)
(* C9: after k >= 1 generate() calls that returned, and no other call that *)
(* changes the instance, the body holds exactly k client-initialization    *)
(* statements, one per call, the parameter list is the config's and the    *)
(* module holds exactly one top-level function definition.                 *)
(***************************************************************************)
C9_RepeatedGenerate ==
    (~direct /\ pc = "idle" /\ nGenerated >= 1) =>
        /\ ClientInitializationCount(_sample_function_def) = nGenerated
        /\ Len(Body) = nGenerated
        /\ \A i \in DOMAIN Body : IsClientInitialization(Body[i])
        /\ ParametersMatchConfig(_sample_function_def)
        /\ Len(_module.body) = 1
        /\ _module.body[1].type = "FunctionDef"
        /\ _module.body[1] = _sample_function_def

C9_Witness ==
    /\ ~direct
    /\ pc = "idle"
    /\ nGenerated = 2
    /\ GenerateReturned
    /\ Len(Body) = 2

\* The step is _add_sample_function(), direct or as the end of generate().
ModuleReplaced ==
    \/ last'.op = "_add_sample_function"
    \/ last'.op = "generate" /\ last'.step = 3

\* What every step leaves unchanged.
C10_FrameStep ==
    /\ ~ModuleReplaced =>
           (_module' = _module /\ code(_module') = code(_module))
    /\ ModuleReplaced => _module'.body = <<_sample_function_def>>
    /\ last'.op \in Properties =>
           _sample_function_def' = _sample_function_def
    /\ Fields' = Fields

(***************************************************************************)
(* C10: the module changes only in _add_sample_function() (called directly *)
(* or as the last step of generate()); every other method and every        *)
(* property read leaves the module, and with it code, as it was, so a      *)
(* function definition changed after generate() differs from the one code  *)
(* shows; no call changes api_schema, config, api_version or is_sync.      *)
(***************************************************************************)
C10_ModuleSnapshot == [][C10_FrameStep]_vars

\* After generate(), a statement was appended and code was read: it still
\* shows the function definition as generate() left it.
C10_Witness ==
    /\ last.op = "code"
    /\ nGenerated = 1
    /\ Len(Body) = 2
    /\ Body[2] = IfStatement
    /\ _module.body # <<_sample_function_def>>
    /\ result.value = RenderStatement(_module.body[1], <<>>)
    /\ result.value # RenderStatement(_sample_function_def, <<>>)

=============================================================================
